---- MODULE Spec2Model ----
(***************************************************************************)
(* Real-time transcript segmentation and enrichment dispatch.              *)
(*                                                                         *)
(* Spec  : the mounted component, client/src/components/                   *)
(*         transcription-display.tsx (useAiAnalysis variant).              *)
(* SpecR : the transcript effect of that component on its own, under every *)
(*         short ASR result, interim results included.                     *)
(* SpecB : the useAdvancedAiAnalysis variant of the component (part_006),  *)
(*         which has the per-block analysis and translation buttons.       *)
(* SpecH : the useSpeechRecognition hook (part_002): the transcript, the   *)
(*         guards of its automatic dispatches and the calls it issues.     *)
(* SpecHome, SpecSplit : the page's start/stop/clear with the component's  *)
(*         effect; the sentence splitter on its own.                       *)
(* SpecN : the histories of the NLP processor (advanced-nlp.ts) and of the *)
(*         useAdvancedAiAnalysis hook.                                     *)
(* SpecL : the recording session of the hook (recognizer, intervals,       *)
(*         restart timer) and its language controls.                       *)
(* SpecD : language detection results during a recording.                  *)
(* SpecM : MemStorage's transcription sessions (server/storage.ts).        *)
(* SpecT : translateText of the server (server/services/gemini.ts), await  *)
(*         by await.                                                       *)
(*                                                                         *)
(* Text is a sequence of one-character strings over Alphabet.  "a" is an   *)
(* ordinary letter, "q" a letter that starts an interrogative word (the    *)
(* /^(que|what|...)/ alternative of detectQuestion), " " is whitespace and *)
(* "." stands for the strong punctuation class [.!?].  The '[INTERIM]'     *)
(* marker is the single symbol Marker.                                     *)
(*                                                                         *)
(* Every handler runs to completion and the component re-renders before   *)
(* the next handler runs (single-threaded event loop).  A mutation's       *)
(* hook-level callbacks are the ones of the last render in which that      *)
(* mutation was the observer's current mutation (useMutation re-sets the   *)
(* options of the current mutation only); this is what the sel field of a  *)
(* request records.                                                        *)
(***************************************************************************)
EXTENDS Integers, Sequences, FiniteSets, TLC

\* ---------------------------------------------------------------- bounds
MaxLen == 6        \* longest final transcript, in characters
MaxReq == 2        \* network calls issued in one run
MaxId == 3         \* segments created in one run
MaxLenR == 5       \* longest final transcript of the reconcile-only runs
MaxChunk == 2      \* longest ASR result of the reconcile-only runs
MaxLenH == 30      \* longest transcript of the hook runs
MaxCalls == 2      \* network calls the hook issues in one run
MaxTime == 6000    \* latest Date.now() of the hook runs, in ms
MaxDelta == 4      \* longest delta of the splitter runs
MaxAnalyses == 22  \* analyzeText calls of the NLP runs
MaxTopics == 2     \* topics extracted from one text
MaxStarts == 2     \* startRecording calls of the session runs
MaxDetections == 3 \* detectLanguage calls of the session runs
MaxInFlight == 2   \* detectLanguage calls in flight at once
MaxSessions == 3   \* sessions MemStorage holds at once
MaxWords == 2      \* longest text of a translation request, in words

\* the keys of enabledLanguages, in insertion order
LanguageOrder == <<"pt-BR", "en-US", "es-ES">>
Languages == {LanguageOrder[i] : i \in 1..Len(LanguageOrder)}

\* nothing returned yet by MemStorage; no translateText call yet
NoSession == [id |-> 0, title |-> ""]
NoReturn == [kind |-> "none", session |-> NoSession]
NoResult == [translatedText |-> <<>>, confidence |-> 0, detectedLanguage |-> ""]
NoReply == [kind |-> "none", raw |-> <<>>, translatedText |-> <<>>, confidence |-> 0]
NoTranslation ==
    [impl |-> "", pc |-> "idle", text |-> <<>>, targetLanguage |-> "",
     isAutoTranslation |-> FALSE, attempts |-> <<>>, replies |-> <<>>,
     result |-> NoResult]

Alphabet == {"a", "q", " ", "."}
Marker == "#"
White == {" "}
Strong == {"."}
LeadPunct == {".", " "}

VARIABLES
    transcript,               \* prop: the hook's running transcript
    sentenceBlocks,           \* useState<SentenceBlock[]>
    lastProcessedTranscript,  \* useState("")
    interimText,              \* useState("")
    selectedSentence,         \* useState("")
    autoResponseEnabled,      \* useState(false)
    inflight,                 \* network calls not yet resolved
    curAnalysis,              \* rid of the analysis observer's current mutation
    timers,                   \* pending setTimeout callbacks of processFinalTranscript
    isAutoAnalyzing,          \* part_006: useState(false)
    autoAiEnabled,            \* part_006: useState(true)
    pftAuto,                  \* part_006: isAutoAnalyzing as the memoized
                              \* processFinalTranscript captured it
    autoTranslationEnabled,   \* prop: the hook's autoTranslationEnabled
    now,                      \* part_002: Date.now(), in ms
    lastDetectionTimeRef,     \* part_002: useRef(0)
    lastProcessedTextRef,     \* part_002: useRef("")
    enhancedMode,             \* part_002: useState(true)
    currentLanguage,          \* part_002: useState("pt-BR")
    translationTargetLanguage,\* part_002: useState("pt-BR")
    initClosure,              \* part_002: the state the memoized
                              \* initializeRecognition closed over
    recognition,              \* part_002: recognitionRef.current with the
                              \* closure of its onresult handler
    calls,                    \* network calls issued by the hook, in order
    nextId,                   \* next fresh segment id
    nextRid,                  \* next fresh request id
    appendOnly,               \* history: transcript has only grown by final appends
    deltas,                   \* history: concatenation of the new-final deltas
    conversationHistory,      \* advanced-nlp.ts: the processor's conversationHistory
    sentimentHistory,         \* advanced-nlp.ts: sentimentHistory
    topicHistory,             \* advanced-nlp.ts: topicHistory
    analysisHistory,          \* use-advanced-ai-analysis.tsx: useState([])
    currentContext,           \* use-advanced-ai-analysis.tsx: useState([])
    nlpCalls,                 \* history: analyzeText calls so far
    isRecording,              \* part_002: useState(false)
    enabledLanguages,         \* part_002: useState({pt-BR, en-US, es-ES: true})
    recentDetectionsRef,      \* part_002: useRef<string[]>([])
    detections,               \* part_002: detectLanguage mutations in flight
    recognitionRef,           \* part_002: the session recognitionRef.current
                              \* holds, 0 for null
    sessions,                 \* the recognizer's sessions that can still
                              \* deliver an event
    timeIntervalRef,          \* part_002: useRef, 0 for null
    audioLevelIntervalRef,    \* part_002: useRef, 0 for null
    intervals,                \* the setInterval timers not yet cleared
    restartTimers,            \* pending setTimeout callbacks of switchLanguage
    starts,                   \* history: startRecording calls so far
    detected,                 \* history: detectLanguage calls so far
    transcriptionSessions,    \* storage.ts: MemStorage's Map of sessions
    returned,                 \* what the last MemStorage call resolved to
    translation               \* gemini.ts: the translateText call in progress
                              \* or last settled

vars == <<transcript, sentenceBlocks, lastProcessedTranscript, interimText,
          selectedSentence, autoResponseEnabled, inflight, curAnalysis,
          timers, isAutoAnalyzing, autoAiEnabled, pftAuto,
          autoTranslationEnabled, now, lastDetectionTimeRef,
          lastProcessedTextRef, enhancedMode, currentLanguage,
          translationTargetLanguage, initClosure, recognition, calls,
          nextId, nextRid, appendOnly, deltas,
          conversationHistory, sentimentHistory, topicHistory,
          analysisHistory, currentContext, nlpCalls,
          isRecording, enabledLanguages, recentDetectionsRef, detections,
          recognitionRef, sessions, timeIntervalRef, audioLevelIntervalRef,
          intervals, restartTimers, starts, detected,
          transcriptionSessions, returned, translation>>

\* the state of the NLP processor and of the advanced-analysis hook
varsN == <<conversationHistory, sentimentHistory, topicHistory,
           analysisHistory, currentContext, nlpCalls>>

\* the recording session and the language selection of the hook (part_002)
varsL == <<isRecording, enabledLanguages, recentDetectionsRef, detections,
           recognitionRef, sessions, timeIntervalRef, audioLevelIntervalRef,
           intervals, restartTimers, starts, detected>>

\* the state of the server: MemStorage and the translation service
varsV == <<transcriptionSessions, returned, translation>>

\* the state the transcript, segmentation and dispatch handlers never touch
varsX == <<varsN, varsL, varsV>>

\* the state of the hook (part_002) beyond transcript and
\* autoTranslationEnabled
varsH == <<now, lastDetectionTimeRef, lastProcessedTextRef, enhancedMode,
           currentLanguage, translationTargetLanguage, initClosure,
           recognition, calls>>

\* the state of the display components
varsC == <<sentenceBlocks, lastProcessedTranscript, interimText,
           selectedSentence, autoResponseEnabled, inflight, curAnalysis,
           timers, isAutoAnalyzing, autoAiEnabled, pftAuto, nextId, nextRid,
           appendOnly, deltas>>

\* the state of part_006 that the mounted component does not have
varsB == <<isAutoAnalyzing, autoAiEnabled, pftAuto, autoTranslationEnabled>>

\* the state of the speech page: hook and display
varsS == <<transcript, autoTranslationEnabled, varsC, varsH>>

\* what the session and language handlers of the hook leave alone
restL == <<transcript, autoTranslationEnabled, varsC, varsN, now,
           lastDetectionTimeRef, lastProcessedTextRef, enhancedMode,
           translationTargetLanguage, initClosure, recognition, calls, varsV>>

\* what the NLP processor and the advanced-analysis hook leave alone
restN == <<varsS, varsL, varsV>>

\* the state of the client, which the server never touches
varsClient == <<varsS, varsN, varsL>>

\* ------------------------------------------------------- string helpers
RECURSIVE TrimStart(_)
TrimStart(s) ==
    IF s # <<>> /\ Head(s) \in White THEN TrimStart(Tail(s)) ELSE s

RECURSIVE TrimEnd(_)
TrimEnd(s) ==
    IF s # <<>> /\ s[Len(s)] \in White
    THEN TrimEnd(SubSeq(s, 1, Len(s) - 1)) ELSE s

\* String.prototype.trim
Trim(s) == TrimEnd(TrimStart(s))

\* String.prototype.startsWith
StartsWith(s, p) == Len(p) <= Len(s) /\ SubSeq(s, 1, Len(p)) = p

\* String.prototype.slice(n)
Slice(s, n) == SubSeq(s, n + 1, Len(s))

\* newText.replace(/^[.,!?;\s]+/, '')
RECURSIVE StripLead(_)
StripLead(s) ==
    IF s # <<>> /\ Head(s) \in LeadPunct THEN StripLead(Tail(s)) ELSE s

\* the pieces of s between runs of strong punctuation, as split(/[.!?]+/)
\* returns them (a leading or trailing run yields an empty piece)
RECURSIVE SplitFrom(_, _, _)
SplitFrom(s, cur, inRun) ==
    IF s = <<>> THEN <<cur>>
    ELSE IF Head(s) \in Strong
         THEN IF inRun THEN SplitFrom(Tail(s), cur, TRUE)
              ELSE <<cur>> \o SplitFrom(Tail(s), <<>>, TRUE)
         ELSE SplitFrom(Tail(s), Append(cur, Head(s)), FALSE)

SplitStrong(s) == SplitFrom(s, <<>>, FALSE)

RECURSIVE TrimAll(_)
TrimAll(ss) == IF ss = <<>> THEN <<>> ELSE <<Trim(Head(ss))>> \o TrimAll(Tail(ss))

RECURSIVE NonEmpty(_)
NonEmpty(ss) ==
    IF ss = <<>> THEN <<>>
    ELSE IF Head(ss) # <<>> THEN <<Head(ss)>> \o NonEmpty(Tail(ss))
         ELSE NonEmpty(Tail(ss))

\* mutant: the pieces are not trimmed
Sentences_NoTrim(newText) == NonEmpty(SplitStrong(newText))

\* newText.split(/[.!?]+/).map(s => s.trim()).filter(s => s.length > 0)
Sentences(newText) == NonEmpty(TrimAll(SplitStrong(newText)))

HasMarker(t) == \E i \in 1..Len(t) : t[i] = Marker

MarkerPos(t) == CHOOSE i \in 1..Len(t) : t[i] = Marker /\ \A j \in 1..(i-1) : t[j] # Marker

\* transcript.split('[INTERIM]')[0] and [1]
FinalPart(t) == IF HasMarker(t) THEN SubSeq(t, 1, MarkerPos(t) - 1) ELSE t
InterimPart(t) == IF HasMarker(t) THEN SubSeq(t, MarkerPos(t) + 1, Len(t)) ELSE <<>>

\* detectQuestion(sentence): a leading interrogative word
detectQuestion(s) == s # <<>> /\ Head(s) = "q"

\* ------------------------------------------- the hook's transcript (part_002)
RECURSIVE Includes(_, _)
\* String.prototype.includes
Includes(s, p) ==
    IF Len(p) > Len(s) THEN FALSE
    ELSE StartsWith(s, p) \/ Includes(Tail(s), p)

\* s.split(' ')
RECURSIVE SplitSpaceFrom(_, _)
SplitSpaceFrom(s, cur) ==
    IF s = <<>> THEN <<cur>>
    ELSE IF Head(s) = " " THEN <<cur>> \o SplitSpaceFrom(Tail(s), <<>>)
         ELSE SplitSpaceFrom(Tail(s), Append(cur, Head(s)))

SplitSpace(s) == SplitSpaceFrom(s, <<>>)

\* words.join(' ')
RECURSIVE JoinSpace(_)
JoinSpace(ws) ==
    IF ws = <<>> THEN <<>>
    ELSE IF Len(ws) = 1 THEN Head(ws)
         ELSE Head(ws) \o <<" ">> \o JoinSpace(Tail(ws))

\* cleanPrevTranscript.split(' ').slice(-3).join(' ')
LastWords(s) ==
    LET ws == SplitSpace(s)
    IN  JoinSpace(SubSeq(ws, IF Len(ws) > 3 THEN Len(ws) - 2 ELSE 1, Len(ws)))

\* finalText.split(' ').slice(0, 3).join(' ')
FirstWords(s) ==
    LET ws == SplitSpace(s)
    IN  JoinSpace(SubSeq(ws, 1, IF Len(ws) > 3 THEN 3 ELSE Len(ws)))

\* prevTranscript.replace(/\[INTERIM\].*$/, '')
CleanTranscript(t) == FinalPart(t)

\* the updater passed to setTranscript in recognition.onresult;
\* finalTranscript and interimTranscript are the raw ASR strings
OnResultTranscript(prev, finalTranscript, interimTranscript) ==
    LET cleanPrev == CleanTranscript(prev)
        finalText == Trim(finalTranscript)
        appended ==
            IF finalText # <<>>
               /\ ~Includes(cleanPrev, finalText)
               /\ LastWords(cleanPrev) # FirstWords(finalText)
            THEN cleanPrev \o (IF cleanPrev # <<>> THEN <<" ">> ELSE <<>>) \o finalText
            ELSE cleanPrev
    IN  IF Trim(interimTranscript) # <<>>
        THEN appended \o <<Marker>> \o Trim(interimTranscript)
        ELSE appended

\* the updater passed to setTranscript in detectLanguage.onSuccess: the last
\* 20 words are replaced by correctedText; below 21 words nothing is kept
CorrectedTranscript(prev, correctedText) ==
    LET ws == SplitSpace(CleanTranscript(prev))
        kept == IF Len(ws) > 20 THEN SubSeq(ws, 1, Len(ws) - 20) ELSE <<>>
    IN  JoinSpace(kept) \o (IF Len(ws) > 20 THEN <<" ">> ELSE <<>>) \o correctedText

\* ------------------------------------------------ reconcile and split
\* mutant: the prefix already processed is not cut off
NewText_NoSlice(finalText, last) == Trim(StripLead(finalText))

\* mutant: the processed length is cut off without the startsWith test
NewText_AlwaysSlice(finalText, last) ==
    Trim(StripLead(Trim(Slice(finalText, Len(last)))))

\* the new part of finalText, as processFinalTranscript computes it
NewText(finalText, last) ==
    LET raw == IF last # <<>> /\ StartsWith(finalText, last)
               THEN Trim(Slice(finalText, Len(last)))
               ELSE finalText
    IN  Trim(StripLead(raw))

\* the delta that reaches the splitter (empty when shorter than 2)
Delta(finalText, last) ==
    IF finalText = <<>> \/ Len(NewText(finalText, last)) < 2
    THEN <<>> ELSE NewText(finalText, last)

NewSentences(finalText, last) == Sentences(Delta(finalText, last))

\* mutant: the interim text is handed over together with the final text
Processed_WithInterim(t, last) ==
    IF t = <<>> THEN <<>>
    ELSE IF HasMarker(t)
         THEN IF Trim(FinalPart(t)) # <<>> /\ Trim(FinalPart(t)) # last
              THEN Trim(FinalPart(t) \o InterimPart(t)) ELSE <<>>
         ELSE IF t # last THEN t ELSE <<>>

\* what the effect hands to processFinalTranscript (<<>>: not called)
Processed(t, last) ==
    IF t = <<>> THEN <<>>
    ELSE IF HasMarker(t)
         THEN IF Trim(FinalPart(t)) # <<>> /\ Trim(FinalPart(t)) # last
              THEN Trim(FinalPart(t)) ELSE <<>>
         ELSE IF t # last THEN t ELSE <<>>

\* lastProcessedTranscript after the effect
NextLastProcessed(t, last) ==
    IF t = <<>> THEN <<>>
    ELSE IF Processed(t, last) # <<>> THEN Processed(t, last) ELSE last

NewBlock(id, sentence) ==
    [id |-> id, originalText |-> sentence, translatedText |-> "",
     isTranslating |-> FALSE, showTranslation |-> FALSE,
     aiResponse |-> "", isAnalyzing |-> FALSE, hasAiAnalysis |-> FALSE]

NewBlocks(sentences, firstId) ==
    [i \in 1..Len(sentences) |-> NewBlock(firstId + i - 1, sentences[i])]

Ids(blocks) == {blocks[i].id : i \in 1..Len(blocks)}

\* prev.map(block => cond(block) ? f(block) : block)
MapBlocks(blocks, Cond(_), F(_)) ==
    [i \in 1..Len(blocks) |-> IF Cond(blocks[i]) THEN F(blocks[i]) ELSE blocks[i]]

\* ------------------------------------------------------------ requests
\* a network call in flight.  text is the mutation's variables.text, sel the
\* selectedSentence (auto: the isAutoAnalyzing) its callbacks are bound to once
\* it is no longer the observer's current mutation.  History fields: forId is the segment the call
\* was dispatched for (0: none), redo tells that this segment already carried
\* a successful result at dispatch, stale that clearAll ran since dispatch.
Request(rid, kind, text, forId, redo) ==
    [rid |-> rid, kind |-> kind, text |-> text, forId |-> forId,
     sel |-> <<>>, auto |-> FALSE, redo |-> redo, stale |-> FALSE]

\* mutant: every callback reads the selectedSentence of the latest render
SelOf_Latest(r) == selectedSentence

\* selectedSentence as the callbacks of request r see it
SelOf(r) == IF r.rid = curAnalysis THEN selectedSentence ELSE r.sel

\* isAutoAnalyzing as the callbacks of request r see it (part_006)
AutoOf(r) == IF r.rid = curAnalysis THEN isAutoAnalyzing ELSE r.auto

\* the observer moves to a new mutation: the callbacks of the one it leaves
\* keep the state of the last render
Superseded(reqs) ==
    {IF r.rid = curAnalysis
     THEN [r EXCEPT !.sel = selectedSentence, !.auto = isAutoAnalyzing]
     ELSE r : r \in reqs}

\* recognitionRef.current = null: no recognizer, no handler closure
NoRecognition ==
    [on |-> FALSE, auto |-> FALSE, target |-> "", enhanced |-> FALSE, lang |-> ""]

\* --------------------------------------------------------------- Init
Init ==
    /\ transcript = <<>>
    /\ sentenceBlocks = <<>>
    /\ lastProcessedTranscript = <<>>
    /\ interimText = <<>>
    /\ selectedSentence = <<>>
    /\ autoResponseEnabled = FALSE
    /\ inflight = {}
    /\ curAnalysis = 0
    /\ timers = {}
    /\ isAutoAnalyzing = FALSE
    /\ autoAiEnabled = TRUE
    /\ pftAuto = FALSE
    /\ autoTranslationEnabled = FALSE
    /\ now = 3000
    /\ lastDetectionTimeRef = 0
    /\ lastProcessedTextRef = <<>>
    /\ enhancedMode = TRUE
    /\ currentLanguage = "pt-BR"
    /\ translationTargetLanguage = "pt-BR"
    /\ initClosure = [auto |-> FALSE, target |-> "pt-BR", enhanced |-> TRUE,
                      lang |-> "pt-BR"]
    /\ recognition = NoRecognition
    /\ calls = <<>>
    /\ nextId = 1
    /\ nextRid = 1
    /\ appendOnly = TRUE
    /\ deltas = <<>>
    /\ conversationHistory = <<>>
    /\ sentimentHistory = <<>>
    /\ topicHistory = <<>>
    /\ analysisHistory = <<>>
    /\ currentContext = <<>>
    /\ nlpCalls = 0
    /\ isRecording = FALSE
    /\ enabledLanguages = [l \in Languages |-> TRUE]
    /\ recentDetectionsRef = <<>>
    /\ detections = {}
    /\ recognitionRef = 0
    /\ sessions = {}
    /\ timeIntervalRef = 0
    /\ audioLevelIntervalRef = 0
    /\ intervals = {}
    /\ restartTimers = {}
    /\ starts = 0
    /\ detected = 0
    /\ transcriptionSessions = <<>>
    /\ returned = NoReturn
    /\ translation = NoTranslation

\* ------------------------------------------------------------ actions
\* useEffect(..., [transcript]) with processFinalTranscript, run for the
\* new transcript t
TranscriptEffect(t, grows) ==
    LET finalText == Processed(t, lastProcessedTranscript)
        sentences == NewSentences(finalText, lastProcessedTranscript)
        newBlocks == NewBlocks(sentences, nextId)
    IN  /\ t # transcript
        /\ nextId + Len(sentences) - 1 <= MaxId
        /\ transcript' = t
        /\ interimText' = Trim(InterimPart(t))
        /\ lastProcessedTranscript' = NextLastProcessed(t, lastProcessedTranscript)
        /\ sentenceBlocks' = sentenceBlocks \o newBlocks
        /\ nextId' = nextId + Len(sentences)
        /\ timers' = timers \cup
              {[sentence |-> newBlocks[i].originalText, forId |-> newBlocks[i].id] :
                 i \in {j \in 1..Len(newBlocks) :
                          autoResponseEnabled /\ detectQuestion(newBlocks[j].originalText)}}
        /\ appendOnly' = (appendOnly /\ grows /\ ~HasMarker(t))
        /\ deltas' = IF appendOnly'
                     THEN deltas \o Delta(finalText, lastProcessedTranscript)
                     ELSE <<>>
        /\ UNCHANGED <<varsX, varsH, varsB, selectedSentence, autoResponseEnabled, inflight,
                       curAnalysis, nextRid>>

\* the ASR results of a run: a question with its mark and a plain phrase
FinalTexts == {<<"q", "a", ".">>, <<"a", "a">>}
InterimTexts == {<<>>, <<"a">>}
Corrections == {<<"a", "a">>}

\* recognition.onresult delivers a final result
AsrFinal ==
    \E f \in FinalTexts :
        /\ Len(OnResultTranscript(transcript, f, <<>>)) <= MaxLen
        /\ TranscriptEffect(OnResultTranscript(transcript, f, <<>>), TRUE)

\* detectLanguage.onSuccess with corrections
Corrected ==
    \E c \in Corrections :
        TranscriptEffect(CorrectedTranscript(transcript, c), FALSE)

\* handleSentenceClick(sentence); forId is the segment that was clicked or
\* for which the timer was set
SentenceClick(sentence, forId, redo) ==
    /\ nextRid <= MaxReq
    /\ selectedSentence' = sentence
    /\ sentenceBlocks' = MapBlocks(sentenceBlocks,
                            LAMBDA b : b.originalText = sentence,
                            LAMBDA b : [b EXCEPT !.isAnalyzing = TRUE])
    /\ inflight' = Superseded(inflight) \cup
                     {Request(nextRid, "analysis", sentence, forId, redo)}
    /\ curAnalysis' = nextRid
    /\ nextRid' = nextRid + 1

\* a click on a rendered block (isClickable is true for every block)
handleSentenceClick ==
    \E i \in 1..Len(sentenceBlocks) :
        /\ SentenceClick(sentenceBlocks[i].originalText, sentenceBlocks[i].id,
                         sentenceBlocks[i].aiResponse = "ok")
        /\ UNCHANGED <<varsX, varsH, varsB, transcript, lastProcessedTranscript, interimText,
                       autoResponseEnabled, timers, nextId,
                       appendOnly, deltas>>

\* the 1000 ms timer set by processFinalTranscript fires
AutoTimer ==
    \E tm \in timers :
        /\ SentenceClick(tm.sentence, tm.forId,
                         \E i \in 1..Len(sentenceBlocks) :
                            /\ sentenceBlocks[i].id = tm.forId
                            /\ sentenceBlocks[i].aiResponse = "ok")
        /\ timers' = timers \ {tm}
        /\ UNCHANGED <<varsX, varsH, varsB, transcript, lastProcessedTranscript, interimText,
                       autoResponseEnabled, nextId, appendOnly, deltas>>

\* handleManualQuestion with a non-empty question
handleManualQuestion ==
    /\ transcript # <<>>
    /\ nextRid <= MaxReq
    /\ inflight' = Superseded(inflight) \cup
                     {Request(nextRid, "analysis", <<>>, 0, FALSE)}
    /\ curAnalysis' = nextRid
    /\ nextRid' = nextRid + 1
    /\ UNCHANGED <<varsX, varsH, varsB, transcript, sentenceBlocks, lastProcessedTranscript,
                   interimText, selectedSentence, autoResponseEnabled, timers,
                   nextId, appendOnly, deltas>>

\* mutant: the response is written over the text of the block
AnalysisMerge_OverText(blocks, sel, response) ==
    IF sel = <<>> THEN blocks
    ELSE MapBlocks(blocks,
                   LAMBDA b : b.originalText = sel,
                   LAMBDA b : [b EXCEPT !.originalText = <<"a">>, !.isAnalyzing = FALSE])

\* the block update of useAiAnalysis onSuccess / onError
AnalysisMerge(blocks, sel, response) ==
    IF sel = <<>> THEN blocks
    ELSE MapBlocks(blocks,
                   LAMBDA b : b.originalText = sel,
                   LAMBDA b : [b EXCEPT !.aiResponse = response, !.isAnalyzing = FALSE])

AnalysisTargets(blocks, sel) ==
    IF sel = <<>> THEN {}
    ELSE {blocks[i].id : i \in {j \in 1..Len(blocks) : blocks[j].originalText = sel}}

AnalysisDone(r, response) ==
    /\ r.kind = "analysis"
    /\ sentenceBlocks' = AnalysisMerge(sentenceBlocks, SelOf(r), response)
    /\ inflight' = inflight \ {r}
    /\ UNCHANGED <<varsX, varsH, varsB, transcript, lastProcessedTranscript, interimText,
                   selectedSentence, autoResponseEnabled, curAnalysis, timers,
                   nextId, nextRid, appendOnly, deltas>>

\* useAiAnalysis onSuccess
AnalysisSuccess == \E r \in inflight : AnalysisDone(r, "ok")

\* useAiAnalysis onError (network failure or timeout)
AnalysisError == \E r \in inflight : AnalysisDone(r, "err")

clearAll ==
    /\ sentenceBlocks' = <<>>
    /\ lastProcessedTranscript' = <<>>
    /\ interimText' = <<>>
    /\ appendOnly' = FALSE
    /\ deltas' = <<>>
    /\ inflight' = {[r EXCEPT !.stale = TRUE] : r \in inflight}
    /\ UNCHANGED <<varsX, varsH, varsB, transcript, selectedSentence, autoResponseEnabled,
                   curAnalysis, timers, nextId, nextRid>>

\* the Switch bound to setAutoResponseEnabled
ToggleAutoResponse ==
    /\ autoResponseEnabled' = ~autoResponseEnabled
    /\ UNCHANGED <<varsX, varsH, varsB, transcript, sentenceBlocks, lastProcessedTranscript,
                   interimText, selectedSentence, inflight, curAnalysis, timers,
                   nextId, nextRid, appendOnly, deltas>>

Next ==
    \/ AsrFinal
    \/ Corrected
    \/ handleSentenceClick
    \/ AutoTimer
    \/ handleManualQuestion
    \/ AnalysisSuccess
    \/ AnalysisError
    \/ clearAll
    \/ ToggleAutoResponse

Spec == Init /\ [][Next]_vars

\* every network call resolves: it succeeds, fails or times out
FairSpec == Spec /\ WF_vars(AnalysisSuccess \/ AnalysisError)

\* ------------------------------------------------- reconcile-only runs
\* SpecR: the transcript effect of the same component under every final ASR
\* result of up to MaxChunk characters, with or without an interim result
\* after it; no enrichment is dispatched
AlphabetR == {"a", " ", "."}
AnyFinalTexts == UNION {[1..n -> AlphabetR] : n \in 1..MaxChunk}

\* recognition.onresult delivers a final result
AsrAny ==
    \E f \in AnyFinalTexts :
        /\ Len(OnResultTranscript(transcript, f, <<>>)) <= MaxLenR
        /\ TranscriptEffect(OnResultTranscript(transcript, f, <<>>), TRUE)

\* recognition.onresult delivers an interim result, alone or after a final one
AsrInterim ==
    \E f \in FinalTexts \cup {<<>>}, i \in InterimTexts \ {<<>>} :
        /\ Len(FinalPart(OnResultTranscript(transcript, f, i))) <= MaxLenR
        /\ TranscriptEffect(OnResultTranscript(transcript, f, i), TRUE)

NextR ==
    \/ AsrAny
    \/ AsrInterim
    \/ Corrected
    \/ clearAll

SpecR == Init /\ [][NextR]_vars

\* ------------------------------------------------ part_006 (SpecB)
\* lastProcessedTranscript after the effect of part_006: an empty transcript
\* leaves it alone
NextLastProcessedB(t, last) ==
    IF Processed(t, last) # <<>> THEN Processed(t, last) ELSE last

\* useEffect(..., [transcript, lastProcessedTranscript]) with the memoized
\* processFinalTranscript, run for transcript t over the state (last, blocks);
\* captured is the isAutoAnalyzing that processFinalTranscript closed over
TranscriptEffectB(t, last, blocks, captured, grows) ==
    LET finalText == Processed(t, last)
        sentences == NewSentences(finalText, last)
        newBlocks == NewBlocks(sentences, nextId)
        lastBlock == newBlocks[Len(newBlocks)]
        auto      == /\ autoAiEnabled
                     /\ newBlocks # <<>>
                     /\ ~captured
                     /\ detectQuestion(lastBlock.originalText)
    IN  /\ nextId + Len(sentences) - 1 <= MaxId
        /\ transcript' = t
        /\ interimText' = Trim(InterimPart(t))
        /\ lastProcessedTranscript' = NextLastProcessedB(t, last)
        /\ sentenceBlocks' = blocks \o newBlocks
        /\ nextId' = nextId + Len(sentences)
        /\ isAutoAnalyzing' = (isAutoAnalyzing \/ auto)
        /\ timers' = timers \cup
              (IF auto
               THEN {[sentence |-> lastBlock.originalText, forId |-> lastBlock.id]}
               ELSE {})
        /\ pftAuto' = IF lastProcessedTranscript' # last
                      THEN isAutoAnalyzing' ELSE captured
        /\ appendOnly' = (appendOnly /\ grows /\ ~HasMarker(t))
        /\ deltas' = IF appendOnly' THEN deltas \o Delta(finalText, last) ELSE <<>>

\* recognition.onresult delivers a final result
AsrFinalB ==
    \E f \in FinalTexts :
        /\ OnResultTranscript(transcript, f, <<>>) # transcript
        /\ Len(OnResultTranscript(transcript, f, <<>>)) <= MaxLen
        /\ TranscriptEffectB(OnResultTranscript(transcript, f, <<>>),
                             lastProcessedTranscript, sentenceBlocks, pftAuto, TRUE)
        /\ UNCHANGED <<varsX, varsH, selectedSentence, autoResponseEnabled, autoAiEnabled,
                       autoTranslationEnabled, inflight, curAnalysis, nextRid>>

\* clearAll of part_006; lastProcessedTranscript is a dependency of the
\* effect, so clearing a non-empty one runs the effect again on the
\* transcript that is still there
clearAllB ==
    /\ IF lastProcessedTranscript # <<>> /\ transcript # <<>>
       THEN TranscriptEffectB(transcript, <<>>, <<>>, isAutoAnalyzing, FALSE)
       ELSE /\ sentenceBlocks' = <<>>
            /\ lastProcessedTranscript' = <<>>
            /\ interimText' = <<>>
            /\ appendOnly' = FALSE
            /\ deltas' = <<>>
            /\ pftAuto' = IF lastProcessedTranscript # <<>>
                          THEN isAutoAnalyzing ELSE pftAuto
            /\ UNCHANGED <<transcript, nextId, isAutoAnalyzing, timers>>
    /\ inflight' = {[r EXCEPT !.stale = TRUE] : r \in inflight}
    /\ UNCHANGED <<varsX, varsH, selectedSentence, autoResponseEnabled, autoAiEnabled,
                   autoTranslationEnabled, curAnalysis, nextRid>>

\* analyzeAdvanced(...) of part_006
AnalyzeAdvanced(text, forId) ==
    /\ nextRid <= MaxReq
    /\ inflight' = Superseded(inflight) \cup
                     {Request(nextRid, "analysis", text, forId, FALSE)}
    /\ curAnalysis' = nextRid
    /\ nextRid' = nextRid + 1

\* the 800 ms timer set by processFinalTranscript fires
AutoTimerB ==
    \E tm \in timers :
        /\ AnalyzeAdvanced(tm.sentence, tm.forId)
        /\ timers' = timers \ {tm}
        /\ UNCHANGED <<varsX, varsH, varsB, transcript, sentenceBlocks, lastProcessedTranscript,
                       interimText, selectedSentence, autoResponseEnabled,
                       nextId, appendOnly, deltas>>

\* mutant: the click dispatches only for a block that matches a trigger
handleAiClickOn_TriggerOnly(i) ==
    LET block == sentenceBlocks[i]
    IN  /\ ~block.isAnalyzing
        /\ IF block.aiResponse # ""
           THEN /\ sentenceBlocks' =
                      [sentenceBlocks EXCEPT ![i].hasAiAnalysis = ~block.hasAiAnalysis]
                /\ UNCHANGED <<inflight, curAnalysis, nextRid>>
           ELSE /\ detectQuestion(block.originalText)
                /\ sentenceBlocks' = [sentenceBlocks EXCEPT ![i].isAnalyzing = TRUE]
                /\ AnalyzeAdvanced(block.originalText, block.id)
        /\ UNCHANGED <<varsX, varsH, varsB, transcript, lastProcessedTranscript, interimText,
                       selectedSentence, autoResponseEnabled, timers, nextId,
                       appendOnly, deltas>>

\* handleAiClick(blockId) on the i-th rendered block; the button is disabled
\* while the block is analyzing
handleAiClickOn(i) ==
    LET block == sentenceBlocks[i]
    IN  /\ ~block.isAnalyzing
        /\ IF block.aiResponse # ""
           THEN /\ sentenceBlocks' =
                      [sentenceBlocks EXCEPT ![i].hasAiAnalysis = ~block.hasAiAnalysis]
                /\ UNCHANGED <<inflight, curAnalysis, nextRid>>
           ELSE /\ sentenceBlocks' = [sentenceBlocks EXCEPT ![i].isAnalyzing = TRUE]
                /\ AnalyzeAdvanced(block.originalText, block.id)
        /\ UNCHANGED <<varsX, varsH, varsB, transcript, lastProcessedTranscript, interimText,
                       selectedSentence, autoResponseEnabled, timers, nextId,
                       appendOnly, deltas>>

handleAiClick == \E i \in 1..Len(sentenceBlocks) : handleAiClickOn(i)

\* handleTranslationClick(blockId) on the i-th rendered block; the button is
\* rendered when autoTranslationEnabled and disabled while translating
handleTranslationClickOn(i) ==
    LET block == sentenceBlocks[i]
    IN  /\ autoTranslationEnabled
        /\ ~block.isTranslating
        /\ IF block.translatedText # ""
           THEN /\ sentenceBlocks' =
                      [sentenceBlocks EXCEPT ![i].showTranslation = ~block.showTranslation]
                /\ UNCHANGED <<inflight, nextRid>>
           ELSE /\ nextRid <= MaxReq
                /\ sentenceBlocks' = [sentenceBlocks EXCEPT ![i].isTranslating = TRUE]
                /\ inflight' = inflight \cup
                     {Request(nextRid, "translation", block.originalText, block.id, FALSE)}
                /\ nextRid' = nextRid + 1
        /\ UNCHANGED <<varsX, varsH, varsB, transcript, lastProcessedTranscript, interimText,
                       selectedSentence, autoResponseEnabled, curAnalysis, timers,
                       nextId, appendOnly, deltas>>

handleTranslationClick ==
    \E i \in 1..Len(sentenceBlocks) : handleTranslationClickOn(i)

\* handleSearch with a query that looks like a question
handleSearch ==
    /\ AnalyzeAdvanced(<<>>, 0)
    /\ UNCHANGED <<varsX, varsH, varsB, transcript, sentenceBlocks, lastProcessedTranscript,
                   interimText, selectedSentence, autoResponseEnabled, timers,
                   nextId, appendOnly, deltas>>

\* the block update of useAdvancedAiAnalysis onSuccess / onError
AnalysisMergeB(blocks, response) ==
    MapBlocks(blocks,
              LAMBDA b : b.isAnalyzing,
              LAMBDA b : [b EXCEPT !.isAnalyzing = FALSE, !.aiResponse = response,
                                   !.hasAiAnalysis = (response = "ok")])

AnalysisDoneB(r, response) ==
    /\ r.kind = "analysis"
    /\ IF ~AutoOf(r)
       THEN /\ sentenceBlocks' = AnalysisMergeB(sentenceBlocks, response)
            /\ UNCHANGED isAutoAnalyzing
       ELSE /\ isAutoAnalyzing' = FALSE
            /\ UNCHANGED sentenceBlocks
    /\ inflight' = inflight \ {r}
    /\ UNCHANGED <<varsX, varsH, transcript, lastProcessedTranscript, interimText,
                   selectedSentence, autoResponseEnabled, curAnalysis, timers,
                   autoAiEnabled, pftAuto, autoTranslationEnabled,
                   nextId, nextRid, appendOnly, deltas>>

\* useAdvancedAiAnalysis onSuccess
AnalysisSuccessB == \E r \in inflight : AnalysisDoneB(r, "ok")

\* useAdvancedAiAnalysis onError
AnalysisErrorB == \E r \in inflight : AnalysisDoneB(r, "err")

\* the block update of translateSentence onSuccess / onError
TranslationMerge(blocks, text, result) ==
    MapBlocks(blocks,
              LAMBDA b : b.originalText = text,
              LAMBDA b : [b EXCEPT !.translatedText = result, !.isTranslating = FALSE])

TranslationDone(r, result) ==
    /\ r.kind = "translation"
    /\ sentenceBlocks' = TranslationMerge(sentenceBlocks, r.text, result)
    /\ inflight' = inflight \ {r}
    /\ UNCHANGED <<varsX, varsH, varsB, transcript, lastProcessedTranscript, interimText,
                   selectedSentence, autoResponseEnabled, curAnalysis, timers,
                   nextId, nextRid, appendOnly, deltas>>

\* translateSentence onSuccess with a translation
TranslationSuccess == \E r \in inflight : TranslationDone(r, "ok")

\* translateSentence onSuccess with '[TRADUÇÃO INDISPONÍVEL]'
TranslationUnavailable == \E r \in inflight : TranslationDone(r, "noapi")

\* translateSentence onError
TranslationError == \E r \in inflight : TranslationDone(r, "err")

\* the Switch bound to setAutoAiEnabled; processFinalTranscript is memoized
\* again
ToggleAutoAi ==
    /\ autoAiEnabled' = ~autoAiEnabled
    /\ pftAuto' = isAutoAnalyzing
    /\ UNCHANGED <<varsX, varsH, transcript, sentenceBlocks, lastProcessedTranscript,
                   interimText, selectedSentence, autoResponseEnabled, inflight,
                   curAnalysis, timers, isAutoAnalyzing, autoTranslationEnabled,
                   nextId, nextRid, appendOnly, deltas>>

\* toggleAutoTranslation of the hook, seen as the prop
ToggleAutoTranslation ==
    /\ autoTranslationEnabled' = ~autoTranslationEnabled
    /\ UNCHANGED <<varsX, varsH, transcript, sentenceBlocks, lastProcessedTranscript,
                   interimText, selectedSentence, autoResponseEnabled, inflight,
                   curAnalysis, timers, isAutoAnalyzing, autoAiEnabled, pftAuto,
                   nextId, nextRid, appendOnly, deltas>>

NextB ==
    \/ AsrFinalB
    \/ clearAllB
    \/ AutoTimerB
    \/ handleAiClick
    \/ handleTranslationClick
    \/ handleSearch
    \/ AnalysisSuccessB
    \/ AnalysisErrorB
    \/ TranslationSuccess
    \/ TranslationUnavailable
    \/ TranslationError
    \/ ToggleAutoAi
    \/ ToggleAutoTranslation

SpecB == Init /\ [][NextB]_vars

\* ------------------------------------------------ part_002 (SpecH)
DetectionCooldown == 2000
MinSignificantLength == 25
MinEnhanceLength == 10
MinTranslateLength == 5
MaxAiText == 300
MaxTranslateText == 200

\* s.slice(-n)
SliceLast(s, n) == IF Len(s) > n THEN SubSeq(s, Len(s) - n + 1, Len(s)) ELSE s

\* /[.!?]/.test(s)
HasStrong(s) == \E i \in 1..Len(s) : s[i] \in Strong

\* textLength >= 25 || (wordCount >= 2 && /[.!?]/.test(finalTextClean))
isSignificantText(s) ==
    \/ Len(s) >= MinSignificantLength
    \/ Len(SplitSpace(s)) >= 2 /\ HasStrong(s)

\* recognition.onresult appends finalTranscript to the transcript prev
Appends(prev, finalTranscript) ==
    /\ Trim(finalTranscript) # <<>>
    /\ ~Includes(CleanTranscript(prev), Trim(finalTranscript))
    /\ LastWords(CleanTranscript(prev)) # FirstWords(Trim(finalTranscript))

Call(kind, text) == [kind |-> kind, text |-> text, at |-> now]

\* detectLanguage is dispatched for the appended finalTextClean
DetectsLanguage(text) ==
    /\ isSignificantText(text)
    /\ text # lastProcessedTextRef
    /\ now - lastDetectionTimeRef > DetectionCooldown

\* the network calls recognition.onresult issues for the appended text,
\* read through the closure rec of the handler
OnResultCalls(text, rec) ==
    (IF DetectsLanguage(text)
     THEN <<Call("detect", SliceLast(text, MaxAiText))>> ELSE <<>>)
    \o (IF rec.enhanced /\ Len(text) > MinEnhanceLength
        THEN <<Call("enhance", SliceLast(text, MaxAiText))>> ELSE <<>>)
    \o (IF rec.auto /\ Len(Trim(text)) > MinTranslateLength
           /\ (IF rec.target # "" THEN rec.target ELSE "en-US") # rec.lang
        THEN <<Call("translate", SliceLast(text, MaxTranslateText))>> ELSE <<>>)

\* the phrases the recognizer delivers: 25 characters in one word, 11
\* characters in one word, and two words with a full stop
Rep(n) == [i \in 1..n |-> "a"]
FinalTextsH == {<<"q">> \o Rep(24), Rep(10) \o <<"q">>, <<"a", " ", "q", ".">>}

\* recognition.onresult with a final result
OnResult ==
    \E f \in FinalTextsH :
        LET text == Trim(f)
            appends == Appends(transcript, f)
            issued == IF appends THEN OnResultCalls(text, recognition) ELSE <<>>
        IN  /\ recognition.on
            /\ Len(OnResultTranscript(transcript, f, <<>>)) <= MaxLenH
            /\ Len(calls) + Len(issued) <= MaxCalls
            /\ transcript' = OnResultTranscript(transcript, f, <<>>)
            /\ calls' = calls \o issued
            /\ lastDetectionTimeRef' =
                  IF appends /\ DetectsLanguage(text) THEN now ELSE lastDetectionTimeRef
            /\ lastProcessedTextRef' =
                  IF appends /\ DetectsLanguage(text) THEN text ELSE lastProcessedTextRef
            /\ UNCHANGED <<varsX, varsC, autoTranslationEnabled, now, enhancedMode,
                           currentLanguage, translationTargetLanguage,
                           initClosure, recognition>>

\* startRecording: a new recognizer from the memoized initializeRecognition
startRecording ==
    /\ recognition' = [on |-> TRUE, auto |-> initClosure.auto,
                       target |-> initClosure.target,
                       enhanced |-> initClosure.enhanced, lang |-> initClosure.lang]
    /\ recognition' # recognition
    /\ UNCHANGED <<varsX, varsC, transcript, autoTranslationEnabled, now,
                   lastDetectionTimeRef, lastProcessedTextRef, enhancedMode,
                   currentLanguage, translationTargetLanguage, initClosure, calls>>

\* stopRecording: recognitionRef.current = null
stopRecording ==
    /\ recognition.on
    /\ recognition' = NoRecognition
    /\ UNCHANGED <<varsX, varsC, transcript, autoTranslationEnabled, now,
                   lastDetectionTimeRef, lastProcessedTextRef, enhancedMode,
                   currentLanguage, translationTargetLanguage, initClosure, calls>>

\* clearTranscript: the refs of the detection guard are not reset
clearTranscript ==
    /\ transcript # <<>>
    /\ transcript' = <<>>
    /\ UNCHANGED <<varsX, varsC, varsH, autoTranslationEnabled>>

\* toggleAutoTranslation
toggleAutoTranslation ==
    /\ autoTranslationEnabled' = ~autoTranslationEnabled
    /\ translationTargetLanguage' =
          IF ~autoTranslationEnabled
          THEN (IF currentLanguage = "pt-BR" THEN "en-US"
                ELSE IF currentLanguage \in {"en-US", "es-ES"} THEN "pt-BR"
                ELSE "en-US")
          ELSE translationTargetLanguage
    /\ UNCHANGED <<varsX, varsC, transcript, now, lastDetectionTimeRef,
                   lastProcessedTextRef, enhancedMode, currentLanguage,
                   initClosure, recognition, calls>>

\* toggleEnhancedMode; enhancedMode is a dependency of initializeRecognition,
\* which is memoized again over the state of this render
toggleEnhancedMode ==
    /\ enhancedMode' = ~enhancedMode
    /\ initClosure' = [auto |-> autoTranslationEnabled,
                       target |-> translationTargetLanguage,
                       enhanced |-> ~enhancedMode, lang |-> currentLanguage]
    /\ UNCHANGED <<varsX, varsC, transcript, autoTranslationEnabled, now,
                   lastDetectionTimeRef, lastProcessedTextRef, currentLanguage,
                   translationTargetLanguage, recognition, calls>>

\* time passes, a second and a half at a time
Tick ==
    /\ now + 1500 <= MaxTime
    /\ now' = now + 1500
    /\ UNCHANGED <<varsX, varsC, transcript, autoTranslationEnabled,
                   lastDetectionTimeRef, lastProcessedTextRef, enhancedMode,
                   currentLanguage, translationTargetLanguage, initClosure,
                   recognition, calls>>

NextH ==
    \/ OnResult
    \/ startRecording
    \/ stopRecording
    \/ clearTranscript
    \/ toggleAutoTranslation
    \/ toggleEnhancedMode
    \/ Tick

SpecH == Init /\ [][NextH]_vars

\* ------------------------------------------------ the page (SpecHome)
\* Home passes the hook's transcript to the display of
\* transcription-display.tsx: recognition.onresult of a running recognizer,
\* followed by the display's effect
HomeResult == recognition.on /\ (AsrAny \/ AsrInterim)

\* clearTranscript of the hook, followed by the display's effect on the
\* empty transcript
HomeClearTranscript ==
    /\ transcript # <<>>
    /\ TranscriptEffect(<<>>, FALSE)

NextHome ==
    \/ HomeResult
    \/ startRecording
    \/ stopRecording
    \/ HomeClearTranscript
    \/ clearAll

SpecHome == Init /\ [][NextHome]_vars

\* ------------------------------------------------ the splitter (SpecSplit)
\* the deltas handed to the splitter: every text of up to MaxDelta characters
SplitInputs == UNION {[1..n -> AlphabetR] : n \in 0..MaxDelta}

\* the state before processFinalTranscript splits the delta held in deltas
InitSplit ==
    /\ transcript = <<>>
    /\ sentenceBlocks = <<>>
    /\ lastProcessedTranscript = <<>>
    /\ interimText = <<>>
    /\ selectedSentence = <<>>
    /\ autoResponseEnabled = FALSE
    /\ inflight = {}
    /\ curAnalysis = 0
    /\ timers = {}
    /\ isAutoAnalyzing = FALSE
    /\ autoAiEnabled = TRUE
    /\ pftAuto = FALSE
    /\ autoTranslationEnabled = FALSE
    /\ now = 3000
    /\ lastDetectionTimeRef = 0
    /\ lastProcessedTextRef = <<>>
    /\ enhancedMode = TRUE
    /\ currentLanguage = "pt-BR"
    /\ translationTargetLanguage = "pt-BR"
    /\ initClosure = [auto |-> FALSE, target |-> "pt-BR", enhanced |-> TRUE,
                      lang |-> "pt-BR"]
    /\ recognition = NoRecognition
    /\ calls = <<>>
    /\ nextId = 1
    /\ nextRid = 1
    /\ appendOnly = TRUE
    /\ deltas \in SplitInputs
    /\ conversationHistory = <<>>
    /\ sentimentHistory = <<>>
    /\ topicHistory = <<>>
    /\ analysisHistory = <<>>
    /\ currentContext = <<>>
    /\ nlpCalls = 0
    /\ isRecording = FALSE
    /\ enabledLanguages = [l \in Languages |-> TRUE]
    /\ recentDetectionsRef = <<>>
    /\ detections = {}
    /\ recognitionRef = 0
    /\ sessions = {}
    /\ timeIntervalRef = 0
    /\ audioLevelIntervalRef = 0
    /\ intervals = {}
    /\ restartTimers = {}
    /\ starts = 0
    /\ detected = 0
    /\ transcriptionSessions = <<>>
    /\ returned = NoReturn
    /\ translation = NoTranslation

\* the split and store steps of processFinalTranscript for the delta
SplitDelta ==
    /\ sentenceBlocks = <<>>
    /\ Sentences(deltas) # <<>>
    /\ sentenceBlocks' = sentenceBlocks \o NewBlocks(Sentences(deltas), nextId)
    /\ nextId' = nextId + Len(Sentences(deltas))
    /\ UNCHANGED <<varsX, varsH, varsB, transcript, lastProcessedTranscript, interimText,
                   selectedSentence, autoResponseEnabled, inflight, curAnalysis,
                   timers, nextRid, appendOnly, deltas>>

SpecSplit == InitSplit /\ [][SplitDelta]_vars

\* ------------------------------------------------ NLP histories (SpecN)
HistoryCap == 20
KeepAnalyses == 19
KeepContext == 9

\* n copies of x
RECURSIVE Copies(_, _)
Copies(n, x) == IF n = 0 THEN <<>> ELSE <<x>> \o Copies(n - 1, x)

\* updateHistory(text, analysis) at the end of analyzeText, for a text with
\* the given number of topics
analyzeTextWith(topics) ==
    /\ nlpCalls < MaxAnalyses
    /\ nlpCalls' = nlpCalls + 1
    /\ conversationHistory' =
          IF Len(conversationHistory) + 1 > HistoryCap
          THEN SliceLast(Append(conversationHistory, "text"), HistoryCap)
          ELSE Append(conversationHistory, "text")
    /\ sentimentHistory' =
          IF Len(conversationHistory) + 1 > HistoryCap
          THEN SliceLast(Append(sentimentHistory, "sentiment"), HistoryCap)
          ELSE Append(sentimentHistory, "sentiment")
    /\ topicHistory' = topicHistory \o Copies(topics, "topic")

\* nlpProcessor.analyzeText from analyzeSentiment, detectEntities,
\* analyzeConversationContext, or from an analyzeAdvanced that fails later
analyzeText ==
    \E topics \in 0..MaxTopics :
        /\ analyzeTextWith(topics)
        /\ UNCHANGED <<restN, analysisHistory, currentContext>>

\* analyzeAdvanced: analyzeText in the mutationFn, then onSuccess
analyzeAdvancedSuccess ==
    \E topics \in 0..MaxTopics :
        /\ analyzeTextWith(topics)
        /\ analysisHistory' =
              Append(SliceLast(analysisHistory, KeepAnalyses), "result")
        /\ currentContext' =
              Append(SliceLast(currentContext, KeepContext), "answer")
        /\ UNCHANGED restN

\* clearContext of the hook, with nlpProcessor.clearHistory()
clearContext ==
    /\ conversationHistory # <<>>
    /\ currentContext' = <<>>
    /\ analysisHistory' = <<>>
    /\ conversationHistory' = <<>>
    /\ sentimentHistory' = <<>>
    /\ topicHistory' = <<>>
    /\ UNCHANGED <<restN, nlpCalls>>

NextN ==
    \/ analyzeText
    \/ analyzeAdvancedSuccess
    \/ clearContext

SpecN == Init /\ [][NextN]_vars

\* ------------------------------------- part_002: session and language (SpecL)
SwitchConfidence == 85   \* data.confidence > 0.85, in hundredths
HighConfidence == 92     \* data.confidence >= 0.92, in hundredths
QueueCap == 5            \* recentDetectionsRef.current.length > 5
Majority == 3            \* count >= 3

\* the confidences the detection service reports, in hundredths
Confidences == {80, 90, 95}

Live == {"starting", "running"}

\* recognition.stop() on session id: it ends, and delivers onend
Stopped(S, id) ==
    {IF s.id = id /\ s.st \in Live THEN [s EXCEPT !.st = "ending"] ELSE s : s \in S}

\* recognition.abort() on session id: it delivers onerror('aborted'), then onend
Aborted(S, id) ==
    {IF s.id = id /\ s.st \in Live THEN [s EXCEPT !.st = "aborted"] ELSE s : s \in S}

\* the body of startRecording: the session the ref holds is stopped, a new
\* one is started, and both interval refs are overwritten with new timers
StartRecordingCall ==
    LET k == starts + 1 IN
    /\ starts < MaxStarts
    /\ starts' = k
    /\ sessions' = Stopped(sessions, recognitionRef) \cup {[id |-> k, st |-> "starting"]}
    /\ recognitionRef' = k
    /\ timeIntervalRef' = k
    /\ audioLevelIntervalRef' = k
    /\ intervals' = intervals \cup {<<"time", k>>, <<"audio", k>>}

\* the record button while isRecording is false: onStartRecording
pressStart ==
    /\ ~isRecording
    /\ StartRecordingCall
    /\ UNCHANGED <<restL, currentLanguage, isRecording, enabledLanguages,
                   recentDetectionsRef, detections, restartTimers, detected>>

\* the record button while isRecording is true: onStopRecording
pressStop ==
    /\ isRecording
    /\ sessions' = Stopped(sessions, recognitionRef)
    /\ recognitionRef' = 0
    /\ intervals' = intervals \ {<<"time", timeIntervalRef>>,
                                  <<"audio", audioLevelIntervalRef>>}
    /\ timeIntervalRef' = 0
    /\ audioLevelIntervalRef' = 0
    /\ restartTimers' = {[tm EXCEPT !.stopped = TRUE] : tm \in restartTimers}
    /\ UNCHANGED <<restL, currentLanguage, isRecording, enabledLanguages,
                   recentDetectionsRef, detections, starts, detected>>

\* recognition.onstart
onstart ==
    \E s \in sessions :
        /\ s.st = "starting"
        /\ sessions' = (sessions \ {s}) \cup {[s EXCEPT !.st = "running"]}
        /\ isRecording' = TRUE
        /\ UNCHANGED <<restL, currentLanguage, enabledLanguages,
                       recentDetectionsRef, detections, recognitionRef,
                       timeIntervalRef, audioLevelIntervalRef, intervals,
                       restartTimers, starts, detected>>

\* recognition.onerror: of an aborted session, or of a live one that fails
onerror ==
    \E s \in sessions :
        /\ s.st \in Live \cup {"aborted"}
        /\ sessions' = (sessions \ {s}) \cup {[s EXCEPT !.st = "ending"]}
        /\ isRecording' = FALSE
        /\ UNCHANGED <<restL, currentLanguage, enabledLanguages,
                       recentDetectionsRef, detections, recognitionRef,
                       timeIntervalRef, audioLevelIntervalRef, intervals,
                       restartTimers, starts, detected>>

\* recognition.onend: of a session that was stopped, or of a running one the
\* recognizer ends by itself; it clears the intervals the refs hold now
onend ==
    \E s \in sessions :
        /\ s.st \in {"ending", "running"}
        /\ sessions' = sessions \ {s}
        /\ isRecording' = FALSE
        /\ intervals' = intervals \ {<<"time", timeIntervalRef>>,
                                      <<"audio", audioLevelIntervalRef>>}
        /\ UNCHANGED <<restL, currentLanguage, enabledLanguages,
                       recentDetectionsRef, detections, recognitionRef,
                       timeIntervalRef, audioLevelIntervalRef, restartTimers,
                       starts, detected>>

\* the body of switchLanguage(langCode), read through a closure in which
\* isRecording is rec
SwitchLanguageCall(langCode, rec) ==
    /\ currentLanguage' = langCode
    /\ IF rec /\ recognitionRef # 0
       THEN /\ sessions' = Aborted(sessions, recognitionRef)
            /\ recognitionRef' = 0
            /\ restartTimers' = restartTimers \cup {[stopped |-> FALSE]}
       ELSE UNCHANGED <<sessions, recognitionRef, restartTimers>>

\* the language Select of the controls: onSwitchLanguage(value)
switchLanguage ==
    \E langCode \in Languages :
        /\ langCode # currentLanguage
        /\ SwitchLanguageCall(langCode, isRecording)
        /\ UNCHANGED <<restL, isRecording, enabledLanguages,
                       recentDetectionsRef, detections, timeIntervalRef,
                       audioLevelIntervalRef, intervals, starts, detected>>

\* the setTimeout callback of switchLanguage: shouldRestart is the value
\* isRecording had when the timer was set
restartTimer ==
    \E tm \in restartTimers :
        /\ StartRecordingCall
        /\ restartTimers' = restartTimers \ {tm}
        /\ UNCHANGED <<restL, currentLanguage, isRecording, enabledLanguages,
                       recentDetectionsRef, detections, detected>>

\* Object.keys(enabled).find(lang => enabled[lang])
FirstActive(enabled) ==
    LanguageOrder[CHOOSE i \in 1..Len(LanguageOrder) :
                      /\ enabled[LanguageOrder[i]]
                      /\ \A j \in 1..(i - 1) : ~enabled[LanguageOrder[j]]]

\* toggleLanguage(langCode); the switches are disabled while isRecording
toggleLanguage ==
    \E langCode \in Languages :
        LET newEnabledLanguages ==
                [enabledLanguages EXCEPT ![langCode] = ~enabledLanguages[langCode]]
        IN  /\ ~isRecording
            /\ \E l \in Languages : newEnabledLanguages[l]
            /\ enabledLanguages' = newEnabledLanguages
            /\ IF ~newEnabledLanguages[currentLanguage]
               THEN SwitchLanguageCall(FirstActive(newEnabledLanguages), isRecording)
               ELSE UNCHANGED <<currentLanguage, sessions, recognitionRef,
                                restartTimers>>
            /\ UNCHANGED <<restL, isRecording, recentDetectionsRef, detections,
                           timeIntervalRef, audioLevelIntervalRef, intervals,
                           starts, detected>>

\* the render a callback of the detectLanguage mutation closes over
Render == [cur |-> currentLanguage, rec |-> isRecording, en |-> enabledLanguages]

\* detectLanguage(...) from onresult of a running session; the mutation it
\* replaces keeps the callbacks of the render before this call
detectLanguage ==
    /\ detected < MaxDetections
    /\ \E s \in sessions : s.st = "running"
    /\ Cardinality(detections) < MaxInFlight
    /\ detected' = detected + 1
    /\ detections' =
          {IF d.current THEN [d EXCEPT !.current = FALSE, !.seen = Render] ELSE d
             : d \in detections}
          \cup {[current |-> TRUE, seen |-> Render]}
    /\ UNCHANGED <<restL, currentLanguage, isRecording, enabledLanguages,
                   recentDetectionsRef, recognitionRef, sessions,
                   timeIntervalRef, audioLevelIntervalRef, intervals,
                   restartTimers, starts>>

\* the render the callbacks of mutation d close over when it settles
Seen(d) == IF d.current THEN Render ELSE d.seen

\* recentDetectionsRef.current after push(langCode) and the shift
Pushed(langCode) ==
    IF Len(recentDetectionsRef) + 1 > QueueCap
    THEN Tail(Append(recentDetectionsRef, langCode))
    ELSE Append(recentDetectionsRef, langCode)

\* q.filter(x => x === langCode).length
Count(q, langCode) == Cardinality({i \in 1..Len(q) : q[i] = langCode})

\* onSuccess of mutation d with data.languageCode and data.confidence
detectionSuccessOf(d, langCode, confidence) ==
    LET ctx == Seen(d) IN
    /\ detections' = detections \ {d}
    /\ IF confidence > SwitchConfidence /\ langCode # ctx.cur /\ ctx.rec
          /\ ctx.en[langCode]
       THEN IF Count(Pushed(langCode), langCode) >= Majority
               \/ confidence >= HighConfidence
            THEN /\ recentDetectionsRef' = <<>>
                 /\ SwitchLanguageCall(langCode, ctx.rec)
            ELSE /\ recentDetectionsRef' = Pushed(langCode)
                 /\ UNCHANGED <<currentLanguage, sessions, recognitionRef,
                                restartTimers>>
       ELSE UNCHANGED <<recentDetectionsRef, currentLanguage, sessions,
                        recognitionRef, restartTimers>>
    /\ UNCHANGED <<restL, isRecording, enabledLanguages, timeIntervalRef,
                   audioLevelIntervalRef, intervals, starts, detected>>

detectionSuccess ==
    \E d \in detections, langCode \in Languages, confidence \in Confidences :
        detectionSuccessOf(d, langCode, confidence)

\* onError of mutation d: detectLanguageFromTextFallback scores the enabled
\* languages on the text; best is the winner, "" when none is valid
detectionErrorOf(d, best) ==
    LET ctx == Seen(d) IN
    /\ best # "" => ctx.en[best]
    /\ detections' = detections \ {d}
    /\ currentLanguage' =
          IF best # "" /\ ctx.cur # best THEN best ELSE currentLanguage
    /\ UNCHANGED <<restL, isRecording, enabledLanguages, recentDetectionsRef,
                   recognitionRef, sessions, timeIntervalRef,
                   audioLevelIntervalRef, intervals, restartTimers, starts,
                   detected>>

detectionError ==
    \E d \in detections, best \in Languages \cup {""} : detectionErrorOf(d, best)

\* the recording session and the language controls
NextL ==
    \/ pressStart
    \/ pressStop
    \/ onstart
    \/ onerror
    \/ onend
    \/ switchLanguage
    \/ restartTimer
    \/ toggleLanguage

SpecL == Init /\ [][NextL]_vars

\* language detection during a recording that the recognizer ends
NextD ==
    \/ pressStart
    \/ onstart
    \/ onend
    \/ switchLanguage
    \/ toggleLanguage
    \/ detectLanguage
    \/ detectionSuccess
    \/ detectionError

SpecD == Init /\ [][NextD]_vars

\* ------------------------------------------------ storage.ts (SpecM)
\* the ids randomUUID() hands out, and the ids a request can name
SessionIds == 1..MaxSessions
Titles == {"t1", "t2"}

\* the bodies of PATCH /api/sessions/:id: any subset of the fields; a key
\* the updates object does not have is written as in NoSession
Updates == [id : SessionIds \cup {NoSession.id},
            title : Titles \cup {NoSession.title}]

\* { ...session, ...updates }
Spread(session, updates) ==
    [id |-> IF updates.id # NoSession.id THEN updates.id ELSE session.id,
     title |-> IF updates.title # NoSession.title THEN updates.title
               ELSE session.title]

Has(id) == id \in DOMAIN transcriptionSessions

\* this.transcriptionSessions.set(id, session)
MapSet(id, session) ==
    [k \in DOMAIN transcriptionSessions \cup {id} |->
        IF k = id THEN session ELSE transcriptionSessions[k]]

\* this.transcriptionSessions.delete(id)
MapDelete(id) ==
    [k \in DOMAIN transcriptionSessions \ {id} |-> transcriptionSessions[k]]

\* createTranscriptionSession(insertSession): id is a fresh randomUUID()
createTranscriptionSession(id, title) ==
    /\ ~Has(id)
    /\ transcriptionSessions' = MapSet(id, [id |-> id, title |-> title])
    /\ returned' = [kind |-> "session", session |-> [id |-> id, title |-> title]]
    /\ UNCHANGED <<varsClient, translation>>

\* updateTranscriptionSession(id, updates)
updateTranscriptionSession(id, updates) ==
    /\ IF ~Has(id)
       THEN /\ returned' = [kind |-> "undefined", session |-> NoSession]
            /\ UNCHANGED transcriptionSessions
       ELSE LET updatedSession == Spread(transcriptionSessions[id], updates)
            IN  /\ transcriptionSessions' = MapSet(id, updatedSession)
                /\ returned' = [kind |-> "session", session |-> updatedSession]
    /\ UNCHANGED <<varsClient, translation>>

\* deleteTranscriptionSession(id)
deleteTranscriptionSession(id) ==
    /\ returned' = [kind |-> IF Has(id) THEN "true" ELSE "false",
                    session |-> NoSession]
    /\ transcriptionSessions' = MapDelete(id)
    /\ UNCHANGED <<varsClient, translation>>

\* POST /api/sessions, PATCH /api/sessions/:id with req.body as the updates,
\* DELETE /api/sessions/:id
NextM ==
    \/ \E id \in SessionIds, title \in Titles :
          createTranscriptionSession(id, title)
    \/ \E id \in SessionIds, updates \in Updates :
          updateTranscriptionSession(id, updates)
    \/ \E id \in SessionIds : deleteTranscriptionSession(id)

SpecM == Init /\ [][NextM]_vars

\* ------------------------------------------------ gemini.ts (SpecT)
\* the words of a request text: two dictionary words and one that no
\* dictionary has; none matches a pattern of reconstructCorruptedASR, so the
\* text is translated as it is
WordsT == {"hello", "bom", "xyz"}
TextsT == UNION {[1..n -> WordsT] : n \in 0..MaxWords}
TargetsT == Languages \cup {"fr-FR"}

\* basicDict[targetLanguage][word] of gemini.ts, word itself when absent
Dict(targetLanguage, word) ==
    IF targetLanguage = "pt-BR" /\ word = "hello" THEN "ola"
    ELSE IF targetLanguage = "en-US" /\ word = "bom" THEN "good"
    ELSE IF targetLanguage = "es-ES" /\ word = "bom" THEN "bueno"
    ELSE word

\* basicTranslation(text, targetLanguage) of gemini.ts
basicTranslation(text, targetLanguage) ==
    LET translatedText == [i \in 1..Len(text) |-> Dict(targetLanguage, text[i])]
    IN  [translatedText |-> IF translatedText = text
                            THEN <<"[Traducao basica]">> \o text
                            ELSE translatedText,
         confidence |-> 30,
         detectedLanguage |-> "Auto-detectado"]

\* basicDict of part_012
DictGoogle(targetLanguage, word) ==
    IF targetLanguage = "pt-BR" /\ word = "hello" THEN "ola"
    ELSE IF targetLanguage = "en-US" /\ word = "bom" THEN "good"
    ELSE IF targetLanguage = "es-ES" /\ word = "bom" THEN "bueno"
    ELSE IF targetLanguage = "es-ES" /\ word = "hello" THEN "hola"
    ELSE word

\* basicTranslation(text, targetLanguage) of part_012
basicTranslationGoogle(text, targetLanguage) ==
    LET translatedText == [i \in 1..Len(text) |-> DictGoogle(targetLanguage, text[i])]
    IN  IF translatedText # text
        THEN [translatedText |-> translatedText, confidence |-> 60,
              detectedLanguage |-> "Traduzido com dicionario basico"]
        ELSE [translatedText |-> <<"[TRADUCAO INDISPONIVEL]">> \o text,
              confidence |-> 10,
              detectedLanguage |-> "Nao foi possivel traduzir"]

\* what sendMessage resolves to or throws: "fail" is a rejected request,
\* "null" a completion whose content is not a string, "text" a plain
\* string, "json" a string that parses to an object
RepliesT ==
    {[NoReply EXCEPT !.kind = "fail"], [NoReply EXCEPT !.kind = "null"]}
    \cup {[NoReply EXCEPT !.kind = "text", !.raw = raw] : raw \in {<<"a">>, <<" ", "a">>}}
    \cup {[kind |-> "json", raw |-> <<"{", "}">>, translatedText |-> t,
           confidence |-> c] : t \in {<<>>, <<"b">>}, c \in {0, 50, 150}}

\* Math.max(0, Math.min(1, c)), in hundredths
Clamp(c) == IF c < 0 THEN 0 ELSE IF c > 100 THEN 100 ELSE c

\* clientToUse, and the client of the catch branch
PrimaryClient(isAutoTranslation) ==
    IF isAutoTranslation THEN "translation" ELSE "main"

\* a retry on the client that has just failed
SecondaryClient_SameClient(isAutoTranslation) ==
    IF isAutoTranslation THEN "translation" ELSE "main"

SecondaryClient(isAutoTranslation) ==
    IF isAutoTranslation THEN "main" ELSE "translation"

Settled == translation.pc \in {"idle", "returned", "rejected"}

\* translateText(text, targetLanguage, isAutoTranslation) up to the first
\* await of sendMessage
translateText ==
    \E text \in TextsT, targetLanguage \in TargetsT, isAutoTranslation \in BOOLEAN :
        /\ Settled
        /\ translation' =
              [impl |-> "gemini", pc |-> "primary", text |-> text,
               targetLanguage |-> targetLanguage,
               isAutoTranslation |-> isAutoTranslation,
               attempts |-> <<PrimaryClient(isAutoTranslation)>>,
               replies |-> <<>>, result |-> NoResult]
        /\ UNCHANGED <<varsClient, transcriptionSessions, returned>>

\* the primary sendMessage settles with r
primaryReplyOf(r) ==
    LET t == [translation EXCEPT !.replies = Append(@, r)]
        secondary ==
            [t EXCEPT !.pc = "secondary",
                      !.attempts = Append(@, SecondaryClient(t.isAutoTranslation))]
    IN  /\ translation.impl = "gemini"
        /\ translation.pc = "primary"
        /\ translation' =
              IF r.kind = "fail" THEN secondary
              ELSE IF t.isAutoTranslation
              THEN IF r.kind = "null" THEN secondary
                   ELSE [t EXCEPT !.pc = "returned",
                                  !.result = [translatedText |-> Trim(r.raw),
                                              confidence |-> 90,
                                              detectedLanguage |-> "Auto-detectado"]]
              ELSE IF r.kind = "json"
              THEN [t EXCEPT !.pc = "returned",
                             !.result =
                                 [translatedText |->
                                      IF r.translatedText # <<>>
                                      THEN r.translatedText ELSE r.raw,
                                  confidence |->
                                      Clamp(IF r.confidence # 0 THEN r.confidence
                                            ELSE 80),
                                  detectedLanguage |-> "Auto-detectado"]]
              ELSE [t EXCEPT !.pc = "returned",
                             !.result = [translatedText |-> r.raw,
                                         confidence |-> 70,
                                         detectedLanguage |-> "Auto-detectado"]]
        /\ UNCHANGED <<varsClient, transcriptionSessions, returned>>

\* the secondary sendMessage settles with r
secondaryReplyOf(r) ==
    LET t == [translation EXCEPT !.replies = Append(@, r)]
        basic == basicTranslation(t.text, t.targetLanguage)
    IN  /\ translation.impl = "gemini"
        /\ translation.pc = "secondary"
        /\ translation' =
              [t EXCEPT !.pc = "returned",
                        !.result =
                            IF r.kind = "fail" THEN basic
                            ELSE IF t.isAutoTranslation
                            THEN IF r.kind = "null" THEN basic
                                 ELSE [translatedText |-> Trim(r.raw),
                                       confidence |-> 80,
                                       detectedLanguage |-> "Fallback API"]
                            ELSE [translatedText |-> r.raw,
                                  confidence |-> 70,
                                  detectedLanguage |-> "API secundaria"]]
        /\ UNCHANGED <<varsClient, transcriptionSessions, returned>>

\* translateText of part_012 up to the await of translate(text, {to})
translateTextGoogle ==
    \E text \in TextsT, targetLanguage \in TargetsT, isAutoTranslation \in BOOLEAN :
        /\ Settled
        /\ translation' =
              [impl |-> "google", pc |-> "primary", text |-> text,
               targetLanguage |-> targetLanguage,
               isAutoTranslation |-> isAutoTranslation,
               attempts |-> <<"google">>, replies |-> <<>>, result |-> NoResult]
        /\ UNCHANGED <<varsClient, transcriptionSessions, returned>>

\* translate(...) settles with r: a "text" reply is a result with text and
\* from.language.iso, a "null" reply a result without from
googleReplyOf(r) ==
    LET t == [translation EXCEPT !.replies = Append(@, r)]
    IN  /\ translation.impl = "google"
        /\ translation.pc = "primary"
        /\ translation' =
              [t EXCEPT !.pc = "returned",
                        !.result =
                            IF r.kind = "text"
                            THEN [translatedText |-> r.raw, confidence |-> 95,
                                  detectedLanguage |-> "auto-detectado"]
                            ELSE basicTranslationGoogle(t.text, t.targetLanguage)]
        /\ UNCHANGED <<varsClient, transcriptionSessions, returned>>

\* what translate(...) resolves to or throws
RepliesGoogle == {r \in RepliesT : r.kind \in {"fail", "null", "text"}}

NextT ==
    \/ translateText
    \/ \E r \in RepliesT : primaryReplyOf(r)
    \/ \E r \in RepliesT : secondaryReplyOf(r)
    \/ translateTextGoogle
    \/ \E r \in RepliesGoogle : googleReplyOf(r)

SpecT == Init /\ [][NextT]_vars

\* ------------------------------------------------------------- claims
Texts(blocks) == [i \in 1..Len(blocks) |-> blocks[i].originalText]

RECURSIVE Letters(_)
\* the characters of s that are neither whitespace nor punctuation
Letters(s) ==
    IF s = <<>> THEN <<>>
    ELSE IF Head(s) \in (White \cup LeadPunct \cup Strong \cup {Marker})
         THEN Letters(Tail(s))
         ELSE <<Head(s)>> \o Letters(Tail(s))

\* the final text not yet reconciled: what lies beyond lastProcessedTranscript
Unreconciled ==
    IF StartsWith(transcript, lastProcessedTranscript)
    THEN Slice(transcript, Len(lastProcessedTranscript))
    ELSE transcript

\* C3 (as claimed): while the transcript only grows by final appends, the
\* concatenated new-final deltas, followed by the text still to be
\* reconciled, carry every meaningful character of the transcript beyond the
\* initial (empty) lastProcessedTranscript, none dropped and none duplicated
C3_PrefixMonotonicity ==
    appendOnly => Letters(deltas) \o Letters(Unreconciled) = Letters(transcript)

\* C5 (as claimed): while the transcript only grows by final appends, the
\* segments are exactly the sentence units of the settled text, however the
\* text was chunked into updates
C5_UnitsOfSettledText ==
    appendOnly => Texts(sentenceBlocks) = Sentences(transcript)

RECURSIVE OrderedPieces(_, _)
\* the texts occur in s one after another, in order, without overlap
OrderedPieces(texts, s) ==
    IF texts = <<>> THEN TRUE
    ELSE IF Len(Head(texts)) > Len(s) THEN FALSE
         ELSE IF StartsWith(s, Head(texts))
              THEN OrderedPieces(Tail(texts), Slice(s, Len(Head(texts))))
              ELSE OrderedPieces(texts, Tail(s))

\* C5 (amended): while the transcript only grows by final appends, the
\* segments are trimmed, non-empty pieces of the settled text free of strong
\* punctuation, lying in the transcript in creation order without overlap:
\* no settled text is segmented twice, but every update boundary ends a
\* segment
C5_OrderedPiecesOfSettledText ==
    appendOnly =>
        /\ OrderedPieces(Texts(sentenceBlocks), transcript)
        /\ \A i \in 1..Len(sentenceBlocks) :
              LET x == sentenceBlocks[i].originalText
              IN  /\ x # <<>>
                  /\ Head(x) \notin White /\ x[Len(x)] \notin White
                  /\ \A k \in 1..Len(x) : x[k] \notin Strong

\* C5 witness: two updates of one sentence left two segments
C5_Witness ==
    /\ appendOnly
    /\ Len(sentenceBlocks) = 2
    /\ Len(Sentences(transcript)) = 1

Resolves(r) == \A r2 \in inflight' : r2.rid # r.rid

\* C1 (as claimed): a resolved call that was dispatched for a segment is
\* merged into exactly that segment, when it is still in the store, and into
\* no other segment
C1_MergeByIdentity ==
    [][\A r \in inflight :
          (Resolves(r) /\ r.forId # 0) =>
              AnalysisTargets(sentenceBlocks, SelOf(r))
                  = {r.forId} \cap Ids(sentenceBlocks)]_vars

\* C2 (as claimed): no two calls of one kind are in flight for one segment
C2_AtMostOneInFlight ==
    \A r1, r2 \in inflight :
        (r1.forId # 0 /\ r1.forId = r2.forId /\ r1.kind = r2.kind) => r1.rid = r2.rid

\* C4 (as claimed): a call that was in flight when clearAll ran changes no
\* segment when it resolves
C4_StaleResultDropped ==
    [][\A r \in inflight :
          (Resolves(r) /\ r.stale) => sentenceBlocks' = sentenceBlocks]_vars

\* C6: a segment that stays in the store keeps its text, whatever the step
C6_TextImmutable ==
    [][\A i \in 1..Len(sentenceBlocks) : \A j \in 1..Len(sentenceBlocks') :
          sentenceBlocks[i].id = sentenceBlocks'[j].id
              => sentenceBlocks[i].originalText = sentenceBlocks'[j].originalText]_vars

\* C6 witness: a segment carries a merged result and marks a new call, and
\* the transcript has since been replaced by a correction
C6_Witness ==
    /\ Len(sentenceBlocks) >= 2
    /\ sentenceBlocks[1].aiResponse # ""
    /\ sentenceBlocks[1].isAnalyzing
    /\ ~StartsWith(transcript, sentenceBlocks[1].originalText)
    /\ transcript # <<>>

\* C9 (as claimed): no call is dispatched for a segment that already carries
\* a successful result of that kind
C9_NoRedispatchOfDone ==
    \A r \in inflight : ~r.redo

Analyzing(id) ==
    \E i \in 1..Len(sentenceBlocks) :
        sentenceBlocks[i].id = id /\ sentenceBlocks[i].isAnalyzing = TRUE

C8_ManualRetryDispatches ==
    [][\A i \in 1..Len(sentenceBlocks) :
          /\ (handleAiClickOn(i) /\ sentenceBlocks[i].aiResponse = "err"
                 => nextRid' = nextRid + 1)
          /\ (handleTranslationClickOn(i) /\ sentenceBlocks[i].translatedText = "err"
                 => nextRid' = nextRid + 1)]_vars


\* C10 (as claimed): for each kind of automatic enrichment, two network calls
\* carrying identical text are more than the cooldown window apart
C10_DedupWindow ==
    \A i, j \in 1..Len(calls) :
        (i < j /\ calls[i].kind = calls[j].kind /\ calls[i].text = calls[j].text)
            => calls[j].at - calls[i].at > DetectionCooldown


\* C11 (as claimed): two network calls of the same automatic kind are never
\* issued less than the cooldown apart, whatever their texts
C11_CooldownBetweenCalls ==
    \A i, j \in 1..Len(calls) :
        (i < j /\ calls[i].kind = calls[j].kind)
            => calls[j].at - calls[i].at >= DetectionCooldown


\* the call with request id rid is for block i and of the given kind
DispatchedFor(i, kind, rid) ==
    \E r \in inflight' :
        /\ r.rid = rid
        /\ r.kind = kind
        /\ r.forId = sentenceBlocks[i].id
        /\ r.text = sentenceBlocks[i].originalText

C13_AutoDispatchByOwnText ==
    [][autoAiEnabled =>
         \A k \in 1..Len(sentenceBlocks') :
             sentenceBlocks'[k].id >= nextId =>
                 (detectQuestion(sentenceBlocks'[k].originalText)
                    <=> \E tm \in timers' : tm.forId = sentenceBlocks'[k].id)]_vars


\* C14 (as claimed): when the enrichment request of one segment fails, every
\* other segment keeps its text, its enrichment fields and its pending flags
C14_FailureIsolation ==
    [][\A r \in inflight :
         (r.forId # 0 /\ (AnalysisDoneB(r, "err") \/ TranslationDone(r, "err"))) =>
             /\ Len(sentenceBlocks') = Len(sentenceBlocks)
             /\ \A k \in 1..Len(sentenceBlocks) :
                    sentenceBlocks[k].id # r.forId =>
                        sentenceBlocks'[k] = sentenceBlocks[k]]_vars


\* the candidate final text does not continue the text reconciled so far
Restart(cand, last) ==
    /\ cand # <<>>
    /\ last # <<>>
    /\ \/ Len(cand) < Len(last)
       \/ SubSeq(cand, 1, Len(last)) # last

\* the whole candidate as a delta: leading punctuation and blanks stripped,
\* nothing when fewer than 2 characters are left
WholeDelta(cand) ==
    IF Len(Trim(StripLead(cand))) < 2 THEN <<>> ELSE Trim(StripLead(cand))

\* C15: when the candidate final text of an update does not start with
\* lastProcessedTranscript, the segments that were there stay as they are,
\* the units of the whole candidate are appended after them as new segments,
\* and the candidate becomes the reconciled text
C15_RestartTolerance ==
    [][LET cand == Processed(transcript', lastProcessedTranscript)
       IN  (transcript' # transcript /\ Restart(cand, lastProcessedTranscript)) =>
             /\ Len(sentenceBlocks') =
                    Len(sentenceBlocks) + Len(Sentences(WholeDelta(cand)))
             /\ SubSeq(sentenceBlocks', 1, Len(sentenceBlocks)) = sentenceBlocks
             /\ \A k \in 1..Len(Sentences(WholeDelta(cand))) :
                    sentenceBlocks'[Len(sentenceBlocks) + k].originalText =
                        Sentences(WholeDelta(cand))[k]
             /\ lastProcessedTranscript' = cand]_vars

\* after a restart: the first segment's text is not part of the reconciled
\* text, the last segment's text is
C15_Witness ==
    /\ Len(sentenceBlocks) >= 2
    /\ lastProcessedTranscript # <<>>
    /\ ~Includes(lastProcessedTranscript, sentenceBlocks[1].originalText)
    /\ Includes(lastProcessedTranscript,
                sentenceBlocks[Len(sentenceBlocks)].originalText)


\* the positions of the interim marker in t
MarkerAt(t) == {i \in 1..Len(t) : t[i] = Marker}

\* the text of t that stands before the first marker, and the text after it
BeforeMarker(t) ==
    IF MarkerAt(t) = {} THEN t
    ELSE SubSeq(t, 1, (CHOOSE i \in MarkerAt(t) : \A j \in MarkerAt(t) : i <= j) - 1)

AfterMarker(t) ==
    IF MarkerAt(t) = {} THEN <<>>
    ELSE SubSeq(t, (CHOOSE i \in MarkerAt(t) : \A j \in MarkerAt(t) : i <= j) + 1, Len(t))

\* C16: on every transcript update the interim text becomes the trimmed text
\* after the marker (empty without a marker), the segments that were there
\* stay, and the texts of the segments the update creates lie one after
\* another in the text before the marker
C16_InterimNeverSegment ==
    [][transcript' # transcript =>
         /\ interimText' = Trim(AfterMarker(transcript'))
         /\ Len(sentenceBlocks') >= Len(sentenceBlocks)
         /\ SubSeq(sentenceBlocks', 1, Len(sentenceBlocks)) = sentenceBlocks
         /\ OrderedPieces(
                Texts(SubSeq(sentenceBlocks', Len(sentenceBlocks) + 1,
                             Len(sentenceBlocks'))),
                BeforeMarker(transcript'))]_vars

\* an update with final and interim text created a segment and set the
\* interim text
C16_Witness ==
    /\ MarkerAt(transcript) # {}
    /\ interimText # <<>>
    /\ interimText = Trim(AfterMarker(transcript))
    /\ sentenceBlocks # <<>>
    /\ Texts(sentenceBlocks) = Sentences(BeforeMarker(transcript))


\* C17 (as claimed): reconciliation never creates a segment of fewer than 2
\* characters
C17_NoOneCharacterSegment ==
    \A i \in 1..Len(sentenceBlocks) : Len(sentenceBlocks[i].originalText) >= 2


\* C18 (as claimed): when recording stops or the user clears the transcript,
\* lastProcessedTranscript and the interim text are empty afterwards
C18_ResetOnStopOrClear ==
    [][(stopRecording \/ HomeClearTranscript) =>
          (lastProcessedTranscript' = <<>> /\ interimText' = <<>>)]_vars


\* C19 (as claimed): every step leaves the store as it is, appends segments
\* at its end, updates fields other than id and text of one segment in
\* place, or empties the store
C19_AppendUpdateOrClear ==
    [][\/ sentenceBlocks' = <<>>
       \/ /\ Len(sentenceBlocks') > Len(sentenceBlocks)
          /\ SubSeq(sentenceBlocks', 1, Len(sentenceBlocks)) = sentenceBlocks
       \/ /\ Len(sentenceBlocks') = Len(sentenceBlocks)
          /\ \A k \in 1..Len(sentenceBlocks) :
                /\ sentenceBlocks'[k].id = sentenceBlocks[k].id
                /\ sentenceBlocks'[k].originalText = sentenceBlocks[k].originalText
          /\ \A k1, k2 \in 1..Len(sentenceBlocks) :
                (/\ sentenceBlocks'[k1] # sentenceBlocks[k1]
                 /\ sentenceBlocks'[k2] # sentenceBlocks[k2]) => k1 = k2]_vars


\* the maximal stretches i..j of d without strong punctuation
Fragments(d) ==
    {ij \in (1..Len(d)) \X (1..Len(d)) :
        /\ ij[1] <= ij[2]
        /\ \A k \in ij[1]..ij[2] : d[k] \notin Strong
        /\ ij[1] = 1 \/ d[ij[1] - 1] \in Strong
        /\ ij[2] = Len(d) \/ d[ij[2] + 1] \in Strong}

\* the stretches that hold more than whitespace
FullFragments(d) ==
    {ij \in Fragments(d) : \E k \in ij[1]..ij[2] : d[k] \notin White}

\* C20: for every delta the units of the splitter are non-empty, free of
\* strong punctuation and of surrounding whitespace; there is one unit for
\* each stretch between runs of strong punctuation that holds more than
\* whitespace, the k-th unit being the k-th such stretch trimmed; a delta
\* without strong punctuation yields its trimmed self as the only unit, an
\* empty or whitespace-only delta yields none; and the segments stored are
\* these units in this order
C20_SplitUnits ==
    LET d == deltas
        units == Sentences(d)
    IN  /\ \A k \in 1..Len(units) :
              /\ units[k] # <<>>
              /\ Head(units[k]) \notin White
              /\ units[k][Len(units[k])] \notin White
              /\ \A c \in 1..Len(units[k]) : units[k][c] \notin Strong
        /\ Len(units) = Cardinality(FullFragments(d))
        /\ \A k \in 1..Len(units) :
              \E ij \in FullFragments(d) :
                  /\ Cardinality({x \in FullFragments(d) : x[1] < ij[1]}) = k - 1
                  /\ units[k] = Trim(SubSeq(d, ij[1], ij[2]))
        /\ (\A c \in 1..Len(d) : d[c] \notin Strong) =>
              units = IF Trim(d) = <<>> THEN <<>> ELSE <<Trim(d)>>
        /\ Trim(d) = <<>> => units = <<>>
        /\ sentenceBlocks # <<>> => Texts(sentenceBlocks) = units

\* a delta with whitespace around two stretches was split and stored as two
\* segments
C20_Witness ==
    /\ Len(sentenceBlocks) = 2
    /\ Texts(sentenceBlocks) = Sentences(deltas)
    /\ \E c \in 1..Len(deltas) : deltas[c] \in White
    /\ \E c \in 1..Len(deltas) : deltas[c] \in Strong


\* C21 (as claimed): the conversation, topic and sentiment histories never
\* exceed 20 entries, and the hook's analysis history and context never
\* exceed 20 and 10 entries
C21_HistoriesCapped ==
    /\ Len(conversationHistory) <= HistoryCap
    /\ Len(sentimentHistory) <= HistoryCap
    /\ Len(topicHistory) <= HistoryCap
    /\ Len(analysisHistory) <= KeepAnalyses + 1
    /\ Len(currentContext) <= KeepContext + 1


\* the store was cleared and the transcript, all of it final text, has not
\* been reconciled since
Cleared ==
    /\ transcript # <<>>
    /\ MarkerAt(transcript) = {}
    /\ lastProcessedTranscript = <<>>
    /\ sentenceBlocks = <<>>

\* C22 (as claimed): after clearAll the store stays empty while the
\* transcript is unchanged, and when the transcript then grows the segments
\* created lie in the appended text only
C22_NoResegmentingAfterClear ==
    [][Cleared =>
         /\ transcript' = transcript => sentenceBlocks' = <<>>
         /\ (/\ transcript' # transcript
             /\ Len(BeforeMarker(transcript')) >= Len(transcript)
             /\ SubSeq(BeforeMarker(transcript'), 1, Len(transcript)) = transcript)
              => OrderedPieces(Texts(sentenceBlocks'),
                               SubSeq(BeforeMarker(transcript'), Len(transcript) + 1,
                                      Len(BeforeMarker(transcript'))))]_vars


\* C23 (as claimed): when a correction rewrites the transcript, no segment
\* is created whose text an earlier segment already carries
C23_NoDuplicateAfterCorrection ==
    [][Corrected =>
         \A k \in (Len(sentenceBlocks) + 1)..Len(sentenceBlocks') :
             \A j \in 1..Len(sentenceBlocks) :
                 sentenceBlocks'[k].originalText # sentenceBlocks[j].originalText]_vars


\* the calls of the given kind among those a step adds to the log
NewCalls(kind) ==
    {i \in (Len(calls) + 1)..Len(calls') : calls'[i].kind = kind}

\* C26 (as claimed): a final result appended to the transcript dispatches one
\* translation call when auto-translation is enabled at that moment, with a
\* target other than the current language, and the text is longer than 5
\* characters, and none otherwise
C26_AutoTranslationFollowsSetting ==
    [][\A f \in FinalTextsH :
         (/\ recognition.on
          /\ Appends(transcript, f)
          /\ transcript' = OnResultTranscript(transcript, f, <<>>)) =>
             Cardinality(NewCalls("translate")) =
                 IF /\ autoTranslationEnabled
                    /\ translationTargetLanguage # currentLanguage
                    /\ Len(Trim(f)) > MinTranslateLength
                 THEN 1 ELSE 0]_vars


\* C24: a detection result switches the language only if its confidence is
\* above 0.85, its language differs from the current language, recording is
\* active, its language is enabled, and three of the last five detections
\* name it or the confidence is at least 0.92; the queue of detections never
\* holds more than five entries and is empty after every such switch.
C24_SwitchOnlyByRule ==
    /\ [](Len(recentDetectionsRef) <= QueueCap)
    /\ [][\A d \in detections, langCode \in Languages, confidence \in Confidences :
            (detectionSuccessOf(d, langCode, confidence)
             /\ currentLanguage' # currentLanguage)
            => /\ confidence > SwitchConfidence
               /\ langCode # currentLanguage
               /\ isRecording
               /\ enabledLanguages[langCode]
               /\ \/ Count(Pushed(langCode), langCode) >= Majority
                  \/ confidence >= HighConfidence
               /\ recentDetectionsRef' = <<>>]_vars

\* C25: the restart timer of switchLanguage starts no recognition session
\* when recording was stopped after the timer was set.
C25_NoRestartAfterStop ==
    [][\A tm \in restartTimers :
          (tm.stopped /\ restartTimers' = restartTimers \ {tm})
          => starts' = starts]_vars

\* C28: the current recognition language is one of the enabled languages,
\* and at least one language is enabled.
C28_CurrentLanguageEnabled ==
    /\ enabledLanguages[currentLanguage]
    /\ \E l \in Languages : enabledLanguages[l]

\* recording has stopped: no session, no pending restart, isRecording false
RecordingStopped ==
    /\ ~isRecording
    /\ recognitionRef = 0
    /\ sessions = {}
    /\ restartTimers = {}

Active(kind) == {iv \in intervals : iv[1] = kind}

\* C30: at most one recording-time interval and at most one audio-level
\* interval is active, none is active once recording has stopped, and the
\* onend of a replaced session does not cancel the intervals of the session
\* that replaced it.
C30_OneIntervalPerKind ==
    /\ [](/\ Cardinality(Active("time")) <= 1
          /\ Cardinality(Active("audio")) <= 1
          /\ RecordingStopped => intervals = {})
    /\ [][\A s \in sessions :
            (sessions' = sessions \ {s} /\ recognitionRef \notin {0, s.id})
            => intervals' = intervals]_vars


\* C29: every stored session is stored under its own id;
\* updateTranscriptionSession never changes the id of the session it updates;
\* an update or delete of an unknown id leaves the store as it is and
\* resolves to undefined or false.
C29_KeyedByOwnId ==
    /\ [](\A k \in DOMAIN transcriptionSessions : transcriptionSessions[k].id = k)
    /\ [][\A id \in SessionIds, updates \in Updates :
            updateTranscriptionSession(id, updates)
            => IF Has(id)
               THEN transcriptionSessions'[id].id = transcriptionSessions[id].id
               ELSE /\ transcriptionSessions' = transcriptionSessions
                    /\ returned'.kind = "undefined"]_vars
    /\ [][\A id \in SessionIds :
            (deleteTranscriptionSession(id) /\ ~Has(id))
            => /\ transcriptionSessions' = transcriptionSessions
               /\ returned'.kind = "false"]_vars


BothFailed ==
    /\ translation.impl = "gemini"
    /\ translation.pc = "returned"
    /\ Len(translation.replies) = 2
    /\ translation.replies[1].kind = "fail"
    /\ translation.replies[2].kind = "fail"

\* C27: translateText never rejects and makes at most two API attempts; when
\* the primary client fails, exactly one other client is tried, the main
\* client after the translation client for an automatic translation and the
\* translation client after the main client otherwise; when that fails too
\* the result is basicTranslation of the text.
C27_TranslateNeverRejects ==
    /\ translation.pc # "rejected"
    /\ Len(translation.attempts) <= 2
    /\ (/\ translation.impl = "gemini"
        /\ translation.replies # <<>>
        /\ translation.replies[1].kind = "fail")
       => translation.attempts =
             IF translation.isAutoTranslation THEN <<"translation", "main">>
             ELSE <<"main", "translation">>
    /\ BothFailed
       => translation.result =
             basicTranslation(translation.text, translation.targetLanguage)

C27_Witness ==
    /\ BothFailed
    /\ translation.isAutoTranslation
    /\ translation.attempts = <<"translation", "main">>
    /\ translation.text = <<"hello", "xyz">>
    /\ translation.targetLanguage = "pt-BR"
    /\ translation.result.translatedText = <<"ola", "xyz">>

====
